---- MODULE Spec2Model ----
(***************************************************************************)
(* EIP1559-sender: a single-shot command-line program that builds, signs   *)
(* and broadcasts one dynamic-fee transaction.  The model follows main()   *)
(* of src/main.go statement by statement; the two earlier revisions of the *)
(* program (src/unnamed/part_000, src/unnamed/part_001) are the variants   *)
(* "v1" and "v2".  The node behind the RPC endpoint is the environment:    *)
(* every remote call returns an error or one of a small set of results.    *)
(***************************************************************************)
EXTENDS Integers, Sequences, FiniteSets, TLC

(***************************************************************************)
(* Arbitrary-precision naturals (math/big.Int values that do not fit a     *)
(* machine integer of the checker): little-endian sequences of limbs,      *)
(* without leading zero limbs; <<>> is zero.                               *)
(***************************************************************************)
LimbBits == 3 * 5

Base == 2 ^ LimbBits

RECURSIVE Norm(_)
Norm(x) ==
    IF x = <<>> THEN <<>>
    ELSE IF x[Len(x)] = 0 THEN Norm(SubSeq(x, 1, Len(x) - 1))
    ELSE x

RECURSIVE IntToBig(_)
IntToBig(n) ==
    IF n = 0 THEN <<>> ELSE <<n % Base>> \o IntToBig(n \div Base)

RECURSIVE AddC(_, _, _)
AddC(x, y, c) ==
    IF x = <<>> /\ y = <<>> THEN (IF c = 0 THEN <<>> ELSE <<c>>)
    ELSE LET a == IF x = <<>> THEN 0 ELSE Head(x)
             b == IF y = <<>> THEN 0 ELSE Head(y)
             s == a + b + c
         IN  <<s % Base>> \o AddC(IF x = <<>> THEN <<>> ELSE Tail(x),
                                  IF y = <<>> THEN <<>> ELSE Tail(y),
                                  s \div Base)

BAdd(x, y) == Norm(AddC(x, y, 0))

RECURSIVE MulSmallC(_, _, _)
MulSmallC(x, m, c) ==
    IF x = <<>> THEN (IF c = 0 THEN <<>> ELSE <<c>>)
    ELSE LET p == Head(x) * m + c
         IN  <<p % Base>> \o MulSmallC(Tail(x), m, p \div Base)

\* x * m for a single-limb m (0 <= m < Base).
BMulSmall(x, m) == Norm(MulSmallC(x, m, 0))

RECURSIVE BMul(_, _)
BMul(x, y) ==
    IF y = <<>> THEN <<>>
    ELSE BAdd(BMulSmall(x, Head(y)), Norm(<<0>> \o BMul(x, Tail(y))))

\* Quotient and remainder of x by a single-limb divisor, from the top limb down.
RECURSIVE DivSmallR(_, _, _)
DivSmallR(x, m, r) ==
    IF x = <<>> THEN [q |-> <<>>, r |-> r]
    ELSE LET cur == r * Base + x[Len(x)]
             rest == DivSmallR(SubSeq(x, 1, Len(x) - 1), m, cur % m)
         IN  [q |-> Append(rest.q, cur \div m), r |-> rest.r]

BDivSmall(x, m) == Norm(DivSmallR(x, m, 0).q)

BModSmall(x, m) == DivSmallR(x, m, 0).r

RECURSIVE Zeros(_)
Zeros(n) == IF n = 0 THEN <<>> ELSE <<0>> \o Zeros(n - 1)

\* x * 2^s
BShl(x, s) ==
    IF x = <<>> THEN <<>>
    ELSE BMulSmall(Zeros(s \div LimbBits) \o x, 2 ^ (s % LimbBits))

\* x \div 2^s
BShr(x, s) ==
    IF Len(x) <= s \div LimbBits THEN <<>>
    ELSE BDivSmall(SubSeq(x, (s \div LimbBits) + 1, Len(x)), 2 ^ (s % LimbBits))

RECURSIVE IntBitLen(_)
IntBitLen(n) == IF n = 0 THEN 0 ELSE 1 + IntBitLen(n \div 2)

BitLen(x) ==
    IF x = <<>> THEN 0 ELSE LimbBits * (Len(x) - 1) + IntBitLen(x[Len(x)])

\* Bit i (bit 0 is the least significant) of x.
Bit(x, i) ==
    IF Len(x) <= i \div LimbBits THEN 0
    ELSE (x[(i \div LimbBits) + 1] \div (2 ^ (i % LimbBits))) % 2

\* x % 2^n = 0
LowBitsZero(x, n) ==
    /\ \A j \in 1..(n \div LimbBits) : j > Len(x) \/ x[j] = 0
    /\ \/ Len(x) <= n \div LimbBits
       \/ x[(n \div LimbBits) + 1] % (2 ^ (n % LimbBits)) = 0

RECURSIVE BigPow10(_)
BigPow10(n) == IF n = 0 THEN <<1>> ELSE BMulSmall(BigPow10(n - 1), 10)

RECURSIVE IntPow10(_)
IntPow10(n) == IF n = 0 THEN 1 ELSE 10 * IntPow10(n - 1)

(***************************************************************************)
(* Binary floating point.  A positive finite value is [mant, exp], meaning *)
(* mant * 2^exp; float64 carries 53 significant bits, a big.Float carries  *)
(* its own precision.  All roundings are to nearest, ties to even.         *)
(***************************************************************************)
Float64Prec == 53

\* mant (plus a nonzero discarded tail when sticky) rounded to prec bits.
RoundNearestEven(mant, exp, sticky, prec) ==
    IF BitLen(mant) <= prec THEN [mant |-> mant, exp |-> exp]
    ELSE LET s    == BitLen(mant) - prec
             q    == BShr(mant, s)
             half == Bit(mant, s - 1) = 1
             rest == sticky \/ ~LowBitsZero(mant, s - 1)
             up   == half /\ (rest \/ Bit(q, 0) = 1)
         IN  [mant |-> IF up THEN BAdd(q, <<1>>) ELSE q, exp |-> exp + s]

FloatMul(x, y, prec) ==
    RoundNearestEven(BMul(x.mant, y.mant), x.exp + y.exp, FALSE, prec)

\* (*big.Float).Int: the integer part, truncated toward zero.
FloatInt(x) ==
    IF x.exp >= 0 THEN BShl(x.mant, x.exp) ELSE BShr(x.mant, 0 - x.exp)

(***************************************************************************)
(* The amount arithmetic of main().  The -tokenValue flag is a decimal     *)
(* string; a positive amount is the record [m, k], read m / 10^k.          *)
(***************************************************************************)
ScaleBits == 2 * Float64Prec

\* flag.Float64: the float64 nearest to the decimal m / 10^k.
ParseFloat(a) ==
    LET n == BShl(IntToBig(a.m), ScaleBits)
    IN  RoundNearestEven(BDivSmall(n, IntPow10(a.k)), 0 - ScaleBits,
                         BModSmall(n, IntPow10(a.k)) # 0, Float64Prec)

\* A float64 constant of the source text: the float64 nearest to 10^n.
Float64Pow10(n) == RoundNearestEven(BigPow10(n), 0, FALSE, Float64Prec)

\* math.Pow10(n) for 0 <= n <= 308: pow10postab32[n/32] * pow10tab[n%32].
Pow10(n) ==
    FloatMul(Float64Pow10(32 * (n \div 32)), Float64Pow10(n % 32), Float64Prec)

\* big.NewInt(1e18)
weiPerToken == BigPow10(18)

\* new(big.Float).SetInt(x): exact, precision max(bit length, 64).
SetIntPrec(x) == IF BitLen(x) > 64 THEN BitLen(x) ELSE 64

\* new(big.Float).Mul(tokenValueBigFloat, new(big.Float).SetInt(weiPerToken)).Int(nil)
\* The product takes the larger precision of its operands.
WeiValue(tokenValue) ==
    FloatInt(FloatMul(tokenValue, [mant |-> weiPerToken, exp |-> 0],
                      IF SetIntPrec(weiPerToken) > Float64Prec
                      THEN SetIntPrec(weiPerToken) ELSE Float64Prec))

\* new(big.Float).Mul(big.NewFloat(v), new(big.Float).SetFloat64(math.Pow10(int(decimals)))).Int(nil)
TokenBaseUnits(tokenValue, decimals) ==
    FloatInt(FloatMul(tokenValue, Pow10(decimals), Float64Prec))

(***************************************************************************)
(* Bounds of the model and the values the environment may supply.          *)
(***************************************************************************)
MaxNonce == 1

MaxTip == 2

MaxBaseFee == 2

\* The base fee of the example run in the README.
ExampleBaseFee == 100000000

\* The chain id of the example run in the README.
ExampleChainID == 421614

Variants == {"main", "v1", "v2"}

NoValue == 0 - 1

NilInt == <<NoValue>>

Zero == [m |-> 0, k |-> 0]

\* Positive -tokenValue arguments: 0.001, 0.29, 1 and 2.5.
Amounts ==
    {[m |-> 1, k |-> 3], [m |-> 29, k |-> 2], [m |-> 1, k |-> 0], [m |-> 25, k |-> 1]}

ChainIDs == {1, ExampleChainID}

Nonces == 0..MaxNonce

Tips == 0..MaxTip

BaseFees == (0..MaxBaseFee) \cup {ExampleBaseFee}

GasEstimates == {25345, 60000}

\* A uint8 as the 32-byte word an ABI call returns.
Word32(b) == [i \in 1..32 |-> IF i = 32 THEN b ELSE 0]

\* What eth_call may return for decimals(): a padded word, a short result, nothing.
DecimalsResults == {Word32(0), Word32(2), Word32(6), Word32(18), <<6>>, <<>>}

\* common.HexToAddress: the address a string denotes.
HexToAddress(str) == <<"address", str>>

\* crypto.PubkeyToAddress: the address of the key's public key.
PubkeyToAddress(key) == <<"address of", key>>

Terminal == {"usage", "fatal", "panic", "done"}

VARIABLES
    variant,        \* which revision of the program runs
    flags,          \* the parsed command line
    pc,             \* the statement main() is at, or how it ended
    exitStatus,     \* the process exit status, NoValue while running
    fatalMsg,       \* the step whose failure log.Fatalf reported
    calls,          \* the remote operations issued so far, in order
    reply,          \* the last result the node returned, per operation
    chainID, nonce, tokenAddress, decimals, data,
    transferAmount, \* main.go:95
    weiValue,       \* main.go:102 (block scoped), part_000:77
    gasTipCap, baseFee, gasFeeCap, gasLimit,
    estimateMsg,    \* the CallMsg handed to EstimateGas
    tx, signedTx,   \* <<>> or a one-element sequence
    sent            \* the transactions the node accepted

vars ==
    <<variant, flags, pc, exitStatus, fatalMsg, calls, reply, chainID, nonce,
      tokenAddress, decimals, data, transferAmount, weiValue, gasTipCap,
      baseFee, gasFeeCap, gasLimit, estimateMsg, tx, signedTx, sent>>

locals ==
    <<chainID, nonce, tokenAddress, decimals, data, transferAmount, weiValue,
      gasTipCap, baseFee, gasFeeCap, gasLimit, estimateMsg, tx, signedTx>>

NoReply ==
    [ChainID |-> NoValue, PendingNonceAt |-> NoValue, CallContract |-> <<>>,
     SuggestGasTipCap |-> NoValue, HeaderByNumber |-> NoValue,
     EstimateGas |-> NoValue]

Flags ==
    [privateKey : {"", "nothex", "key"}, receiver : {"", "0xR"},
     rpcURL : {"", "url"}, chainID : {0, ExampleChainID},
     tokenValue : {Zero} \cup Amounts, tokenContract : {"", "0xT"},
     tokenABI : {"", "notjson", "noTransfer", "erc20"}]

Init ==
    /\ variant \in Variants
    /\ flags \in Flags
    /\ variant # "main" => flags.tokenContract = "" /\ flags.tokenABI = ""
    /\ pc = "start"
    /\ exitStatus = NoValue
    /\ fatalMsg = ""
    /\ calls = <<>>
    /\ reply = NoReply
    /\ chainID = NoValue
    /\ nonce = NoValue
    /\ tokenAddress = HexToAddress("")
    /\ decimals = NoValue
    /\ data = <<>>
    /\ transferAmount = NilInt
    /\ weiValue = NilInt
    /\ gasTipCap = NoValue
    /\ baseFee = NoValue
    /\ gasFeeCap = NoValue
    /\ gasLimit = NoValue
    /\ estimateMsg = <<>>
    /\ tx = <<>>
    /\ signedTx = <<>>
    /\ sent = <<>>

(***************************************************************************)
(* How a step ends.                                                        *)
(***************************************************************************)
\* log.Fatalf / log.Fatal: the message is logged and the process exits 1.
Fatal(msg) == pc' = "fatal" /\ exitStatus' = 1 /\ fatalMsg' = msg

\* flag.Usage() followed by os.Exit(1).
UsageExit == pc' = "usage" /\ exitStatus' = 1 /\ UNCHANGED fatalMsg

\* A run-time panic nobody recovers: the Go runtime exits with status 2.
Panic == pc' = "panic" /\ exitStatus' = 2 /\ UNCHANGED fatalMsg

\* The run goes on to statement l.
Goto(l) == pc' = l /\ UNCHANGED <<exitStatus, fatalMsg>>

Call(op) == calls' = Append(calls, op)

fromAddress == PubkeyToAddress(flags.privateKey)

toAddress == HexToAddress(flags.receiver)

TokenMode == variant = "main" /\ flags.tokenContract # ""

MissingRequired ==
    \/ flags.privateKey = ""
    \/ flags.receiver = ""
    \/ flags.rpcURL = ""
    \/ flags.tokenValue = Zero

MismatchedToken ==
    \/ flags.tokenContract = "" /\ flags.tokenABI # ""
    \/ flags.tokenContract # "" /\ flags.tokenABI = ""

(***************************************************************************)
(* The statements of main(), in order.                                     *)
(***************************************************************************)
\* CheckFlags with the pairing test looking one way only.
CheckFlagsOneSided ==
    /\ pc = "start"
    /\ IF MissingRequired
       THEN IF variant = "v1" THEN Fatal("flags") ELSE UsageExit
       ELSE IF variant = "main" /\ flags.tokenContract # "" /\ flags.tokenABI = ""
            THEN UsageExit
            ELSE Goto("dial")
    /\ UNCHANGED <<variant, flags, calls, reply, locals, sent>>

CheckFlags ==
    /\ pc = "start"
    /\ IF MissingRequired
       THEN IF variant = "v1" THEN Fatal("flags") ELSE UsageExit
       ELSE IF variant = "main" /\ MismatchedToken
            THEN UsageExit
            ELSE Goto("dial")
    /\ UNCHANGED <<variant, flags, calls, reply, locals, sent>>

Dial ==
    /\ pc = "dial"
    /\ Call("Dial")
    /\ \/ Fatal("connect")
       \/ Goto("chainid")
    /\ UNCHANGED <<variant, flags, reply, locals, sent>>

\* ResolveChainID asking the endpoint whatever the flag says.
ResolveChainIDAlwaysQueried ==
    /\ pc = "chainid"
    /\ Call("ChainID")
    /\ \/ Fatal("chain id") /\ UNCHANGED <<chainID, reply>>
       \/ \E id \in ChainIDs :
              /\ reply' = [reply EXCEPT !.ChainID = id]
              /\ chainID' = id
              /\ Goto("key")
    /\ UNCHANGED <<variant, flags, nonce, tokenAddress, decimals, data,
                   transferAmount, weiValue, gasTipCap, baseFee, gasFeeCap,
                   gasLimit, estimateMsg, tx, signedTx, sent>>

ResolveChainID ==
    /\ pc = "chainid"
    /\ IF flags.chainID # 0
       THEN /\ chainID' = flags.chainID
            /\ Goto("key")
            /\ UNCHANGED <<calls, reply>>
       ELSE /\ Call("ChainID")
            /\ \/ Fatal("chain id") /\ UNCHANGED <<chainID, reply>>
               \/ \E id \in ChainIDs :
                      /\ reply' = [reply EXCEPT !.ChainID = id]
                      /\ chainID' = id
                      /\ Goto("key")
    /\ UNCHANGED <<variant, flags, nonce, tokenAddress, decimals, data,
                   transferAmount, weiValue, gasTipCap, baseFee, gasFeeCap,
                   gasLimit, estimateMsg, tx, signedTx, sent>>

HexToECDSA ==
    /\ pc = "key"
    /\ IF flags.privateKey = "key" THEN Goto("nonce") ELSE Fatal("private key")
    /\ UNCHANGED <<variant, flags, calls, reply, locals, sent>>

\* PendingNonceAt asking again after a failed query.
PendingNonceAtRetried ==
    /\ pc = "nonce"
    /\ Call("PendingNonceAt")
    /\ \/ Goto("nonce") /\ UNCHANGED <<nonce, reply>>
       \/ \E n \in Nonces :
              /\ reply' = [reply EXCEPT !.PendingNonceAt = n]
              /\ nonce' = n
              /\ Goto(IF TokenMode THEN "abi" ELSE "amount")
    /\ UNCHANGED <<variant, flags, chainID, tokenAddress, decimals, data,
                   transferAmount, weiValue, gasTipCap, baseFee, gasFeeCap,
                   gasLimit, estimateMsg, tx, signedTx, sent>>

PendingNonceAt ==
    /\ pc = "nonce"
    /\ Call("PendingNonceAt")
    /\ \/ Fatal("nonce") /\ UNCHANGED <<nonce, reply>>
       \/ \E n \in Nonces :
              /\ reply' = [reply EXCEPT !.PendingNonceAt = n]
              /\ nonce' = n
              /\ Goto(IF TokenMode THEN "abi" ELSE "amount")
    /\ UNCHANGED <<variant, flags, chainID, tokenAddress, decimals, data,
                   transferAmount, weiValue, gasTipCap, baseFee, gasFeeCap,
                   gasLimit, estimateMsg, tx, signedTx, sent>>

\* main.go:98-103: the := declares a new transferAmount inside the block; the
\* function's transferAmount (main.go:95) is not assigned.
NativeAmount ==
    /\ pc = "amount"
    /\ weiValue' = WeiValue(ParseFloat(flags.tokenValue))
    /\ Goto(IF variant = "main" THEN "tip" ELSE "header")
    /\ UNCHANGED <<variant, flags, calls, reply, chainID, nonce, tokenAddress,
                   decimals, data, transferAmount, gasTipCap, baseFee,
                   gasFeeCap, gasLimit, estimateMsg, tx, signedTx, sent>>

ParseABI ==
    /\ pc = "abi"
    /\ tokenAddress' = HexToAddress(flags.tokenContract)
    /\ IF flags.tokenABI = "notjson" THEN Fatal("ABI") ELSE Goto("decimals")
    /\ UNCHANGED <<variant, flags, calls, reply, chainID, nonce, decimals,
                   data, transferAmount, weiValue, gasTipCap, baseFee,
                   gasFeeCap, gasLimit, estimateMsg, tx, signedTx, sent>>

\* getTokenDecimals and its call site: result[len(result)-1] of an empty
\* result is an index out of range.
GetTokenDecimals ==
    /\ pc = "decimals"
    /\ Call("CallContract")
    /\ \/ Fatal("decimals") /\ UNCHANGED <<decimals, reply>>
       \/ \E result \in DecimalsResults :
              /\ reply' = [reply EXCEPT !.CallContract = result]
              /\ IF Len(result) = 0
                 THEN Panic /\ UNCHANGED decimals
                 ELSE decimals' = result[Len(result)] /\ Goto("pack")
    /\ UNCHANGED <<variant, flags, chainID, nonce, tokenAddress, data,
                   transferAmount, weiValue, gasTipCap, baseFee, gasFeeCap,
                   gasLimit, estimateMsg, tx, signedTx, sent>>

\* parsedABI.Pack("transfer", toAddress, transferAmount): the call data of
\* transfer(address,uint256), or an error when the ABI has no such method.
Pack(abi, to, amount) ==
    IF abi = "erc20" THEN <<"transfer", to, amount>> ELSE <<>>

TokenAmount ==
    /\ pc = "pack"
    /\ transferAmount' = TokenBaseUnits(ParseFloat(flags.tokenValue), decimals)
    /\ IF flags.tokenABI = "erc20"
       THEN data' = Pack(flags.tokenABI, toAddress, transferAmount') /\ Goto("tip")
       ELSE Fatal("pack") /\ UNCHANGED data
    /\ UNCHANGED <<variant, flags, calls, reply, chainID, nonce, tokenAddress,
                   decimals, weiValue, gasTipCap, baseFee, gasFeeCap, gasLimit,
                   estimateMsg, tx, signedTx, sent>>

SuggestGasTipCap ==
    /\ pc = "tip"
    /\ Call("SuggestGasTipCap")
    /\ \/ Fatal("tip cap") /\ UNCHANGED <<gasTipCap, reply>>
       \/ \E tip \in Tips :
              /\ reply' = [reply EXCEPT !.SuggestGasTipCap = tip]
              /\ gasTipCap' = tip
              /\ Goto(IF variant = "main" THEN "header" ELSE "feecap")
    /\ UNCHANGED <<variant, flags, chainID, nonce, tokenAddress, decimals,
                   data, transferAmount, weiValue, baseFee, gasFeeCap,
                   gasLimit, estimateMsg, tx, signedTx, sent>>

\* header.BaseFee is nil (NoValue) when the chain has no EIP-1559 base fee.
HeaderByNumber ==
    /\ pc = "header"
    /\ Call("HeaderByNumber")
    /\ \/ Fatal("header") /\ UNCHANGED <<baseFee, reply>>
       \/ \E fee \in BaseFees \cup {NoValue} :
              /\ reply' = [reply EXCEPT !.HeaderByNumber = fee]
              /\ baseFee' = fee
              /\ Goto(IF variant = "main" THEN "feecap" ELSE "tip")
    /\ UNCHANGED <<variant, flags, chainID, nonce, tokenAddress, decimals,
                   data, transferAmount, weiValue, gasTipCap, gasFeeCap,
                   gasLimit, estimateMsg, tx, signedTx, sent>>

\* GasFeeCap with the priority fee left out.
GasFeeCapWithoutTip(base, tip) == base * 2

\* main.go:139-142
GasFeeCap(base, tip) == base + tip * 2

\* part_000:96-99, part_001:108-111
maxFeePerGas(base, tip) == base * 2 + tip

\* (*big.Int).Add / Mul dereference their operands: a nil base fee panics.
ComputeFeeCap ==
    /\ pc = "feecap"
    /\ IF baseFee = NoValue
       THEN Panic /\ UNCHANGED gasFeeCap
       ELSE /\ gasFeeCap' = IF variant = "main"
                            THEN GasFeeCap(baseFee, gasTipCap)
                            ELSE maxFeePerGas(baseFee, gasTipCap)
            /\ Goto("gas")
    /\ UNCHANGED <<variant, flags, calls, reply, chainID, nonce, tokenAddress,
                   decimals, data, transferAmount, weiValue, gasTipCap,
                   baseFee, gasLimit, estimateMsg, tx, signedTx, sent>>

\* Standard gas limit for ETH transfers.
TransferGas == 21000

\* The ethereum.CallMsg of the gas estimate.
CallMsg ==
    IF variant = "main"
    THEN [From |-> fromAddress, To |-> tokenAddress,
          Value |-> NilInt, Data |-> data]
    ELSE [From |-> fromAddress, To |-> toAddress,
          Value |-> weiValue, Data |-> <<>>]

\* GasLimit estimating for every transfer, as the earlier revisions do.
GasLimitAlwaysEstimated ==
    /\ pc = "gas"
    /\ Call("EstimateGas")
    /\ estimateMsg' = <<CallMsg>>
    /\ \/ Fatal("estimate gas") /\ UNCHANGED <<gasLimit, reply>>
       \/ \E gas \in GasEstimates :
              /\ reply' = [reply EXCEPT !.EstimateGas = gas]
              /\ gasLimit' = gas
              /\ Goto("build")
    /\ UNCHANGED <<variant, flags, chainID, nonce, tokenAddress, decimals,
                   data, transferAmount, weiValue, gasTipCap, baseFee,
                   gasFeeCap, tx, signedTx, sent>>

GasLimit ==
    /\ pc = "gas"
    /\ IF variant = "main" /\ flags.tokenContract = ""
       THEN /\ gasLimit' = TransferGas
            /\ Goto("build")
            /\ UNCHANGED <<calls, reply, estimateMsg>>
       ELSE /\ Call("EstimateGas")
            /\ estimateMsg' = <<CallMsg>>
            /\ \/ Fatal("estimate gas") /\ UNCHANGED <<gasLimit, reply>>
               \/ \E gas \in GasEstimates :
                      /\ reply' = [reply EXCEPT !.EstimateGas = gas]
                      /\ gasLimit' = gas
                      /\ Goto("build")
    /\ UNCHANGED <<variant, flags, chainID, nonce, tokenAddress, decimals,
                   data, transferAmount, weiValue, gasTipCap, baseFee,
                   gasFeeCap, tx, signedTx, sent>>

\* types.NewTx copies the DynamicFeeTx; a nil Value is copied as zero.
CopyValue(v) == IF v = NilInt THEN <<>> ELSE v

DynamicFeeTx(to, value, calldata) ==
    [ChainID |-> chainID, Nonce |-> nonce, GasTipCap |-> gasTipCap,
     GasFeeCap |-> gasFeeCap, Gas |-> gasLimit, To |-> to,
     Value |-> CopyValue(value), Data |-> calldata]

NewTx ==
    /\ pc = "build"
    /\ tx' = IF variant = "main"
             THEN IF flags.tokenContract = ""
                  THEN <<DynamicFeeTx(toAddress, transferAmount, <<>>)>>
                  ELSE <<DynamicFeeTx(tokenAddress, <<>>, data)>>
             ELSE <<DynamicFeeTx(toAddress, weiValue, <<>>)>>
    /\ Goto("sign")
    /\ UNCHANGED <<variant, flags, calls, reply, chainID, nonce, tokenAddress,
                   decimals, data, transferAmount, weiValue, gasTipCap,
                   baseFee, gasFeeCap, gasLimit, estimateMsg, signedTx, sent>>

\* types.SignTx(tx, types.LatestSignerForChainID(chainID), privateKey)
SignTx ==
    /\ pc = "sign"
    /\ \/ Fatal("sign") /\ UNCHANGED signedTx
       \/ /\ signedTx' = <<[tx |-> tx[1], signer |-> chainID, from |-> fromAddress]>>
          /\ Goto("send")
    /\ UNCHANGED <<variant, flags, calls, reply, chainID, nonce, tokenAddress,
                   decimals, data, transferAmount, weiValue, gasTipCap,
                   baseFee, gasFeeCap, gasLimit, estimateMsg, tx, sent>>

\* SendTransaction submitting again after a rejection.
SendTransactionRetried ==
    /\ pc = "send"
    /\ Call("SendTransaction")
    /\ \/ Goto("send") /\ UNCHANGED sent
       \/ /\ sent' = Append(sent, signedTx[1])
          /\ pc' = "done"
          /\ exitStatus' = 0
          /\ UNCHANGED fatalMsg
    /\ UNCHANGED <<variant, flags, reply, locals>>

SendTransaction ==
    /\ pc = "send"
    /\ Call("SendTransaction")
    /\ \/ Fatal("send") /\ UNCHANGED sent
       \/ /\ sent' = Append(sent, signedTx[1])
          /\ pc' = "done"
          /\ exitStatus' = 0
          /\ UNCHANGED fatalMsg
    /\ UNCHANGED <<variant, flags, reply, locals>>

Next ==
    \/ CheckFlags
    \/ Dial
    \/ ResolveChainID
    \/ HexToECDSA
    \/ PendingNonceAt
    \/ NativeAmount
    \/ ParseABI
    \/ GetTokenDecimals
    \/ TokenAmount
    \/ SuggestGasTipCap
    \/ HeaderByNumber
    \/ ComputeFeeCap
    \/ GasLimit
    \/ NewTx
    \/ SignTx
    \/ SendTransaction

Spec == Init /\ [][Next]_vars

(***************************************************************************)
(* Vocabulary of the properties.                                           *)
(***************************************************************************)
Occurrences(op) == {i \in 1..Len(calls) : calls[i] = op}

Issued(op) == Occurrences(op) # {}

\* The decimal amount m / 10^k in units of 10^-d, truncated toward zero.
ExactUnits(a, d) ==
    IF d >= a.k THEN BMul(IntToBig(a.m), BigPow10(d - a.k))
    ELSE IntToBig(a.m \div IntPow10(a.k - d))

NativeMain == variant = "main" /\ flags.tokenContract = ""

\* The chain identifier the run has to use.
ResolvedChainID == IF flags.chainID # 0 THEN flags.chainID ELSE reply.ChainID

\* The position of a remote operation in the pipeline.
Rank(op) ==
    CASE op = "Dial" -> 1
      [] op = "ChainID" -> 2
      [] op = "PendingNonceAt" -> 3
      [] op = "CallContract" -> 4
      [] op \in {"HeaderByNumber", "SuggestGasTipCap"} -> 5
      [] op = "EstimateGas" -> 6
      [] op = "SendTransaction" -> 7

(***************************************************************************)
(* C1.  The signed transaction is broadcast at most once, as the last      *)
(* remote call, and only after connect, chain id, key, nonce, amount,      *)
(* fees, gas limit and signing have succeeded; a run that fails or         *)
(* crashes earlier broadcasts nothing; a run that ends successfully has    *)
(* broadcast exactly one transaction, and a run waiting at a remote call,  *)
(* a parse or a construction step can always take that step.               *)
(***************************************************************************)
C1_BroadcastOnceAndLast ==
    /\ Cardinality(Occurrences("SendTransaction")) <= 1
    /\ Len(sent) <= Cardinality(Occurrences("SendTransaction"))
    /\ \A i \in Occurrences("SendTransaction") :
           /\ i = Len(calls)
           /\ calls[1] = "Dial"
           /\ chainID # NoValue
           /\ flags.privateKey = "key"
           /\ nonce # NoValue
           /\ weiValue # NilInt \/ transferAmount # NilInt
           /\ gasTipCap # NoValue /\ baseFee # NoValue /\ gasFeeCap # NoValue
           /\ gasLimit # NoValue
           /\ tx # <<>> /\ signedTx # <<>>
           /\ pc = "done" \/ (pc = "fatal" /\ fatalMsg = "send")
    /\ pc = "done" => Len(sent) = 1 /\ sent[1] = signedTx[1] /\ exitStatus = 0
    /\ pc \in {"usage", "panic"} \/ (pc = "fatal" /\ fatalMsg # "send")
           => ~Issued("SendTransaction") /\ sent = <<>> /\ exitStatus # 0
    /\ pc \notin Terminal \cup {"amount", "pack"} => ENABLED Next

C1_Witness == pc = "done" /\ Len(sent) = 1 /\ Issued("SendTransaction")

(***************************************************************************)
(* C2.  The fee cap of every constructed transaction equals                *)
(* base fee * 2 + priority fee, for the base fee of the latest header and  *)
(* the priority fee the node suggested.                                    *)
(***************************************************************************)
C2_FeeCapIsTwiceBasePlusTip ==
    \A i \in 1..Len(tx) :
        tx[i].GasFeeCap = reply.HeaderByNumber * 2 + reply.SuggestGasTipCap

(***************************************************************************)
(* C3.  In a native transfer of amount a, the transaction that is built,   *)
(* signed and broadcast carries the value computed in the amount step,     *)
(* which is a * 10^18 truncated toward zero, goes to the receiver and has  *)
(* no call data.                                                           *)
(***************************************************************************)
C3_NativeValue ==
    NativeMain =>
        /\ \A i \in 1..Len(tx) :
               /\ tx[i].Value = weiValue
               /\ tx[i].Value = ExactUnits(flags.tokenValue, 18)
               /\ tx[i].To = toAddress
               /\ tx[i].Data = <<>>
        /\ \A i \in 1..Len(sent) : sent[i].tx = tx[1]

(***************************************************************************)
(* C4.  When a required flag is absent, or exactly one of tokenContract    *)
(* and tokenABI is given, the run ends with a non-zero exit status and no  *)
(* remote operation is ever attempted.                                     *)
(***************************************************************************)
C4_UsageErrorBeforeAnyCall ==
    MissingRequired \/ MismatchedToken =>
        /\ calls = <<>>
        /\ sent = <<>>
        /\ pc \in {"start", "usage", "fatal"}
        /\ pc # "start" => exitStatus = 1

C4_Witness ==
    /\ pc = "usage"
    /\ ~MissingRequired
    /\ flags.tokenContract = ""
    /\ flags.tokenABI = "erc20"

(***************************************************************************)
(* C5.  In a token transfer of amount a with declared decimals d (the last *)
(* byte of the decimals() result), the transaction that is built and       *)
(* broadcast goes to the token contract, carries native value 0 and the    *)
(* call data transfer(receiver, a * 10^d truncated toward zero).           *)
(***************************************************************************)
C5_TokenTransfer ==
    TokenMode =>
        \A i \in 1..Len(tx) :
            /\ tx[i].To = HexToAddress(flags.tokenContract)
            /\ tx[i].Value = <<>>
            /\ tx[i].Data =
                   <<"transfer", toAddress,
                     ExactUnits(flags.tokenValue,
                                reply.CallContract[Len(reply.CallContract)])>>

(***************************************************************************)
(* C6.  With a non-zero chainID flag the chain-id query is never issued    *)
(* and the transaction and the signer use the flag's value; with chainID 0 *)
(* the endpoint is queried once and both use the returned value.  The      *)
(* transaction's chain id and the signer's are always the same.            *)
(***************************************************************************)
C6_ChainIDResolution ==
    /\ flags.chainID # 0 => ~Issued("ChainID")
    /\ chainID # NoValue => chainID = ResolvedChainID
    /\ \A i \in 1..Len(tx) :
           /\ tx[i].ChainID = ResolvedChainID
           /\ flags.chainID = 0 => Cardinality(Occurrences("ChainID")) = 1
    /\ \A i \in 1..Len(signedTx) :
           /\ signedTx[i].signer = ResolvedChainID
           /\ signedTx[i].tx.ChainID = signedTx[i].signer
    /\ \A i \in 1..Len(sent) :
           sent[i].signer = ResolvedChainID /\ sent[i].tx.ChainID = ResolvedChainID

C6_Witness ==
    /\ Len(sent) = 1
    /\ flags.chainID = 0
    /\ reply.ChainID = 1
    /\ sent[1].signer = 1

(***************************************************************************)
(* C7.  Every constructed transaction has fee cap >= base fee + priority   *)
(* fee, in native and in token mode.                                       *)
(***************************************************************************)
C7_FeeCapCoversBaseAndTip ==
    \A i \in 1..Len(tx) :
        /\ reply.HeaderByNumber >= 0 /\ reply.SuggestGasTipCap >= 0
        /\ tx[i].GasFeeCap >= reply.HeaderByNumber + reply.SuggestGasTipCap
        /\ tx[i].GasTipCap = reply.SuggestGasTipCap

C7_Witness ==
    /\ TokenMode
    /\ tx # <<>>
    /\ reply.HeaderByNumber = ExampleBaseFee
    /\ reply.SuggestGasTipCap = MaxTip

(***************************************************************************)
(* C8.  Every failure after the flag checks ends the run at once in the    *)
(* logged fatal-error outcome with a non-zero status; no run ends in an    *)
(* unhandled crash, also not when decimals() returns an empty result.      *)
(***************************************************************************)
C8_EveryFailureIsLoggedFatal ==
    /\ pc # "panic"
    /\ exitStatus \in {NoValue, 0, 1}
    /\ exitStatus = 1 /\ calls # <<>> => pc = "fatal" /\ fatalMsg # ""

C10_SingleForwardPass ==
    /\ \A i, j \in 1..Len(calls) :
           i < j => calls[i] # calls[j] /\ Rank(calls[i]) <= Rank(calls[j])
    /\ Issued("ChainID") => flags.chainID = 0
    /\ Issued("CallContract") => TokenMode
    /\ \A i \in 1..Len(calls) : i > 1 => calls[1] = "Dial"
    /\ Issued("SendTransaction") =>
           /\ signedTx # <<>>
           /\ Issued("PendingNonceAt")
           /\ Issued("HeaderByNumber") /\ Issued("SuggestGasTipCap")
    /\ \A i \in 1..Len(tx) : tx[i].Nonce = reply.PendingNonceAt
    /\ \A i \in 1..Len(sent) :
           sent[i] = signedTx[1] /\ sent[i].tx.Nonce = reply.PendingNonceAt

C10_Witness ==
    /\ calls = <<"Dial", "ChainID", "PendingNonceAt", "CallContract",
                 "SuggestGasTipCap", "HeaderByNumber", "EstimateGas",
                 "SendTransaction">>
    /\ Len(sent) = 1
    /\ sent[1].tx.Nonce = MaxNonce

====
